---------------------------- MODULE Spec2Model ----------------------------
(***************************************************************************)
(* The portfolio ledger of DCAMOON: PortfolioService.execute_trade and the *)
(* unit of work it runs in (DatabaseManager.session_scope), over the       *)
(* Portfolio / Position / Trade tables of database/models.py.              *)
(*                                                                         *)
(* Amounts are Python floats in the source.  They are modelled as exact    *)
(* rationals <<numerator, denominator>> in lowest terms, so that the       *)
(* weighted-average and pro-rata divisions are computed, not assumed.      *)
(* Floating-point rounding itself is not modelled.                         *)
(*                                                                         *)
(* A call of execute_trade is a transaction of several statements.  Its    *)
(* steps are separate actions so that a store failure or another session   *)
(* can fall between them:                                                  *)
(*   TradeBegin   lines 142-183 : load the portfolio, validate, add Trade  *)
(*   ExecuteBuy   lines 199-235 : _execute_buy                             *)
(*   ExecuteSell  lines 237-274 : _execute_sell                            *)
(*   TradeFlush   line 100      : commit()'s flush of what is still pending*)
(*   TradeCommit  line 100      : commit()'s COMMIT                        *)
(* create_daily_snapshot is likewise split (SnapshotBegin, SnapshotPrice,  *)
(* SnapshotCompute, SnapshotCommit); update_stop_loss and                  *)
(* get_portfolio_summary are one step each.                                *)
(* Spec runs the execute_trade calls one after the other; SpecConc lets    *)
(* two sessions interleave; SpecLedger runs the three ledger operations    *)
(* of one caller; SpecTrace runs the worked example; SpecDated adds the    *)
(* clock and the snapshot dates; SpecSnapshotConc takes a snapshot while   *)
(* another session trades.                                                 *)
(***************************************************************************)
EXTENDS Integers, Sequences, FiniteSets, TLC

VARIABLES
    portfolios,   \* committed rows of table portfolios: id -> row
    positions,    \* committed rows of table positions (a set: no unique key on ticker)
    trades,       \* committed rows of table trades, in insertion order
    snapshots,    \* committed rows of table portfolio_snapshots, in insertion order
    engine,       \* which branch of _create_engine built the store
    overlay,      \* per DB connection: the writes of its open transaction
    pc,           \* per session: where its execute_trade call stands
    call,         \* per session: the arguments of the call in progress
    loc,          \* per session: the ORM objects the call has loaded
    last,         \* the outcome of the call that has just ended, until its caller takes it
    now,          \* the wall clock (datetime.now())
    ncalls        \* SpecConc: the execute_trade calls begun so far

vars == <<portfolios, positions, trades, snapshots, engine, overlay, pc, call, loc, last,
          now, ncalls>>

-----------------------------------------------------------------------------
(* Bounds of the model *)

MaxTrades == 2
MaxCalls == 3
MaxSnapshots == 1

Procs == {1, 2}

(* Inputs the callers draw from *)
PortfolioIdInputs == {"P1", "P9"}
TickerInputs == {"AAPL", "aapl", "MSFT"}
TradeTypeInputs == {"BUY", "buy", "SELL", "sell", "HOLD"}
ShareInputs == {-1, 0, 1, 2}
PriceInputs == {0, 1, 2}
StartingCashInputs == {0, 4}
SnapshotDateInputs == {1}

-----------------------------------------------------------------------------
(* Exact rational arithmetic for the float columns *)

Abs(x) == IF x < 0 THEN -x ELSE x

RECURSIVE GCD(_, _)
GCD(a, b) == IF b = 0 THEN a ELSE GCD(b, a % b)

Rat(n, d) ==
    LET g == GCD(Abs(n), Abs(d))
        s == IF d < 0 THEN -1 ELSE 1
    IN  <<(s * n) \div g, (s * d) \div g>>

R(i) == <<i, 1>>
RAdd(a, b) == Rat(a[1] * b[2] + b[1] * a[2], a[2] * b[2])
RSub(a, b) == Rat(a[1] * b[2] - b[1] * a[2], a[2] * b[2])
RMul(a, b) == Rat(a[1] * b[1], a[2] * b[2])
RDiv(a, b) == Rat(a[1] * b[2], a[2] * b[1])
RLess(a, b) == a[1] * b[2] < b[1] * a[2]
RLeq(a, b) == a[1] * b[2] <= b[1] * a[2]
RIsZero(a) == a[1] = 0

(* None for an optional float column *)
NoneR == <<>>

RECURSIVE RSum(_)
RSum(s) == IF s = <<>> THEN R(0) ELSE RAdd(Head(s), RSum(Tail(s)))

-----------------------------------------------------------------------------
Upper_AsGiven(s) == s

(* str.upper() on the strings the callers pass *)
Upper(s) ==
    CASE s = "aapl" -> "AAPL"
      [] s = "buy"  -> "BUY"
      [] s = "sell" -> "SELL"
      [] OTHER      -> s

EmptyFcn == [x \in {} |-> R(0)]

(* Optional ORM object: {} is None, {row} is the object *)
IsNone(o) == o = {}
The(o) == CHOOSE r \in o : TRUE

(* Query.first(): None when nothing matches, else some matching row (the
   queries carry no ORDER BY, so which one is the store's choice) *)
First(rows) == IF rows = {} THEN {{}} ELSE {{r} : r \in rows}

-----------------------------------------------------------------------------
(* The rows *)

PortfolioRow(id, starting_cash) ==
    [id |-> id, starting_cash |-> starting_cash, current_cash |-> starting_cash]

TradeRow_Pending(id, portfolio_id, ticker, trade_type, shares, price, total_amount) ==
    [id |-> id, portfolio_id |-> portfolio_id, ticker |-> ticker,
     trade_type |-> trade_type, shares |-> shares, price |-> price,
     total_amount |-> total_amount, execution_type |-> "MARKET",
     status |-> "PENDING", cost_basis |-> NoneR, realized_pnl |-> NoneR]

TradeRow(id, portfolio_id, ticker, trade_type, shares, price, total_amount) ==
    [id |-> id, portfolio_id |-> portfolio_id, ticker |-> ticker,
     trade_type |-> trade_type, shares |-> shares, price |-> price,
     total_amount |-> total_amount, execution_type |-> "MARKET",
     status |-> "FILLED", cost_basis |-> NoneR, realized_pnl |-> NoneR]

InitialSnapshot(portfolio, snapshot_date) ==
    [portfolio_id |-> portfolio.id, snapshot_date |-> snapshot_date,
     total_equity |-> portfolio.current_cash,
     cash_balance |-> portfolio.current_cash,
     total_positions_value |-> R(0), daily_return |-> R(0),
     total_return |-> R(0), total_return_pct |-> R(0),
     position_snapshots |-> {}]

-----------------------------------------------------------------------------
(* The store: committed tables, and per connection the uncommitted writes  *)
(* of its transaction.  With a sqlite URL _create_engine uses StaticPool:  *)
(* every session works on the one shared connection.  Otherwise each       *)
(* session has a connection of its own, reads see what is committed plus   *)
(* the session's own writes, and a row written by an open transaction is   *)
(* locked against the others until that transaction ends.                  *)

Engines == {"sqlite", "other"}
Conns == {0} \cup Procs
Conn(p) == IF engine = "sqlite" THEN 0 ELSE p

EmptyOverlay ==
    [cash |-> EmptyFcn,   \* UPDATE portfolios SET current_cash: id -> value
     posPut |-> {},       \* INSERT / UPDATE positions: the rows as written
     posDel |-> {},       \* DELETE FROM positions: ids
     trIns |-> <<>>]      \* INSERT INTO trades (and UPDATEs of those rows)

Ledger == [portfolios |-> portfolios, positions |-> positions, trades |-> trades]

Ids(rows) == {r.id : r \in rows}

(* What a statement on a connection with writes ov sees *)
Apply(ledger, ov) ==
    [portfolios |->
        [id \in DOMAIN ledger.portfolios |->
            IF id \in DOMAIN ov.cash
            THEN [ledger.portfolios[id] EXCEPT !.current_cash = ov.cash[id]]
            ELSE ledger.portfolios[id]],
     positions |->
        {r \in ledger.positions : r.id \notin ov.posDel /\ r.id \notin Ids(ov.posPut)}
            \cup ov.posPut,
     trades |-> ledger.trades \o ov.trIns]

View(c) == Apply(Ledger, overlay[c])

(* session_scope: commit on normal exit, rollback on an exception *)
ScopeExit_NoRollback(ledger, ov, raised) == Apply(ledger, ov)

ScopeExit(ledger, ov, raised) == IF raised THEN ledger ELSE Apply(ledger, ov)

(* Row locks of the other connections' open transactions *)
PortfolioLocked(c, id) ==
    \E d \in Conns \ {c} : id \in DOMAIN overlay[d].cash
PositionLocked(c, id) ==
    \E d \in Conns \ {c} : id \in Ids(overlay[d].posPut) \cup overlay[d].posDel

(* The statements a flush emits, as changes of the transaction's writes *)
OvInsertTrade(ov, t) == [ov EXCEPT !.trIns = Append(@, t)]

OvSetCash(ov, id, v) ==
    LET old == ov.cash
    IN  [ov EXCEPT !.cash = [x \in DOMAIN old \cup {id} |-> IF x = id THEN v ELSE old[x]]]

OvPutPosition(ov, row) ==
    [ov EXCEPT !.posPut = {r \in @ : r.id # row.id} \cup {row},
               !.posDel = @ \ {row.id}]

OvDeletePosition(ov, id) ==
    [ov EXCEPT !.posPut = {r \in @ : r.id # id}, !.posDel = @ \cup {id}]

OvSetTradePnl(ov, id, pnl) ==
    LET old == ov.trIns
    IN  [ov EXCEPT !.trIns = [i \in DOMAIN old |->
            IF old[i].id = id THEN [old[i] EXCEPT !.realized_pnl = pnl] ELSE old[i]]]

(* An ORM UPDATE sets only the attributes that changed since the object was
   loaded; the row's other columns keep what the store holds *)
MergeUpdate(stored, loaded, cur) ==
    [stored EXCEPT
        !.shares = IF cur.shares # loaded.shares THEN cur.shares ELSE @,
        !.average_cost = IF cur.average_cost # loaded.average_cost THEN cur.average_cost ELSE @,
        !.cost_basis = IF cur.cost_basis # loaded.cost_basis THEN cur.cost_basis ELSE @]

-----------------------------------------------------------------------------
(* execute_trade: the trade math *)

TotalAmount(shares, price) == RMul(shares, price)

Accept == [ok |-> TRUE, kind |-> "", need |-> R(0), have |-> R(0)]
Reject(kind, need, have) == [ok |-> FALSE, kind |-> kind, need |-> need, have |-> have]

(* Validate trade: position is the row the SELL branch queried, or None *)
ValidateTrade_NoCashCheck(trade_type, shares, total_amount, current_cash, position) ==
    IF trade_type = "BUY" THEN Accept
    ELSE IF trade_type = "SELL" THEN
        IF IsNone(position) \/ RLess(The(position).shares, shares)
        THEN Reject("InsufficientShares", shares,
                    IF IsNone(position) THEN R(0) ELSE The(position).shares)
        ELSE Accept
    ELSE Reject("InvalidTradeType", R(0), R(0))

ValidateTrade_NoSharesCheck(trade_type, shares, total_amount, current_cash, position) ==
    IF trade_type = "BUY" THEN
        IF RLess(current_cash, total_amount)
        THEN Reject("InsufficientCash", total_amount, current_cash)
        ELSE Accept
    ELSE IF trade_type = "SELL" THEN
        IF IsNone(position)
        THEN Reject("InsufficientShares", shares, R(0))
        ELSE Accept
    ELSE Reject("InvalidTradeType", R(0), R(0))

ValidateTrade(trade_type, shares, total_amount, current_cash, position) ==
    IF trade_type = "BUY" THEN
        IF RLess(current_cash, total_amount)
        THEN Reject("InsufficientCash", total_amount, current_cash)
        ELSE Accept
    ELSE IF trade_type = "SELL" THEN
        IF IsNone(position) \/ RLess(The(position).shares, shares)
        THEN Reject("InsufficientShares", shares,
                    IF IsNone(position) THEN R(0) ELSE The(position).shares)
        ELSE Accept
    ELSE Reject("InvalidTradeType", R(0), R(0))

(* What the session holds pending when lines 146-169 raise: the Trade is
   added only after validation *)
PendingAtValidation_TradeFirst(trade) == {trade}

PendingAtValidation(trade) == {}

(* _execute_buy, existing position: weighted average cost *)
BuyExisting_KeepAverage(position, shares, total_amount) ==
    [position EXCEPT !.shares = RAdd(position.shares, shares),
                     !.cost_basis = RAdd(position.cost_basis, total_amount)]

BuyExisting(position, shares, total_amount) ==
    LET total_shares == RAdd(position.shares, shares)
        total_cost == RAdd(position.cost_basis, total_amount)
    IN  [position EXCEPT !.average_cost = RDiv(total_cost, total_shares),
                         !.shares = total_shares,
                         !.cost_basis = total_cost]

(* _execute_buy, new position *)
NewPosition_AtZeroCost(id, portfolio_id, ticker, shares, price, total_amount) ==
    [id |-> id, portfolio_id |-> portfolio_id, ticker |-> ticker,
     shares |-> shares, average_cost |-> price, cost_basis |-> R(0),
     stop_loss |-> NoneR]

NewPosition(id, portfolio_id, ticker, shares, price, total_amount) ==
    [id |-> id, portfolio_id |-> portfolio_id, ticker |-> ticker,
     shares |-> shares, average_cost |-> price, cost_basis |-> total_amount,
     stop_loss |-> NoneR]

(* _execute_sell *)
CostBasisSold_Whole(position, shares) == position.cost_basis

CostBasisSold(position, shares) ==
    RMul(RDiv(shares, position.shares), position.cost_basis)

RealizedPnl_WholeCost(position, shares, total_amount) ==
    RSub(total_amount, position.cost_basis)

RealizedPnl(position, shares, total_amount) ==
    RSub(total_amount, CostBasisSold(position, shares))

SellsAll_Never(position, shares) == FALSE

SellsAll(position, shares) == position.shares = shares

SellPartial_KeepCost(position, shares) ==
    [position EXCEPT !.shares = RSub(position.shares, shares)]

SellPartial_KeepShares(position, shares) ==
    LET remaining_ratio == RDiv(RSub(position.shares, shares), position.shares)
    IN  [position EXCEPT !.cost_basis = RMul(position.cost_basis, remaining_ratio)]

SellPartial(position, shares) ==
    LET remaining_ratio == RDiv(RSub(position.shares, shares), position.shares)
    IN  [position EXCEPT !.shares = RSub(position.shares, shares),
                         !.cost_basis = RMul(position.cost_basis, remaining_ratio)]

BuyCash_Unchanged(current_cash, total_amount) == current_cash

BuyCash(current_cash, total_amount) == RSub(current_cash, total_amount)

SellCash_Unchanged(current_cash, total_amount) == current_cash

SellCash(current_cash, total_amount) == RAdd(current_cash, total_amount)

-----------------------------------------------------------------------------
(* Sessions *)

EmptyLedger == [portfolios |-> EmptyFcn, positions |-> {}, trades |-> <<>>]

NoCall ==
    [portfolio_id |-> "", ticker |-> "", trade_type |-> "", given |-> "",
     shares |-> R(0), price |-> R(0), total_amount |-> R(0)]

IdleLoc ==
    [cash |-> R(0),        \* portfolio.current_cash, the attribute in memory
     cashStored |-> R(0),  \* its value as loaded or last flushed
     pos |-> {},           \* the Position object, attributes in memory
     posLoaded |-> {},     \* the same object as loaded
     posOp |-> "none",     \* what the unit of work holds for it: insert, update, delete
     trade |-> {},         \* the Trade object
     pre |-> EmptyLedger]  \* the committed ledger when the call began

NoLast ==
    [op |-> "none", call |-> NoCall, pre |-> EmptyLedger, status |-> "none",
     kind |-> "", need |-> R(0), have |-> R(0), at |-> "", dirty |-> FALSE, trade |-> {},
     ret |-> "none",      \* what update_stop_loss returned
     quotes |-> EmptyFcn, \* what get_current_price returned, per position
     snaps |-> <<>>,      \* the committed snapshots when the call began
     summary |-> EmptyFcn] \* what get_portfolio_summary returned

Range(f) == {f[i] : i \in DOMAIN f}

Max(S) == CHOOSE x \in S : \A y \in S : y <= x

(* uuid4(): an id no row, written or held by a session, carries *)
FreshId(used) == IF used = {} THEN 1 ELSE Max(used) + 1

TradeIdsInUse ==
    Ids(Range(trades))
        \cup UNION {Ids(Range(overlay[c].trIns)) : c \in Conns}
        \cup UNION {Ids(loc[p].trade) : p \in Procs}

PositionIdsInUse ==
    Ids(positions)
        \cup UNION {Ids(overlay[c].posPut) : c \in Conns}
        \cup UNION {Ids(loc[p].pos) \cup Ids(loc[p].posLoaded) : p \in Procs}

(* given keeps the trade_type argument as the caller passed it *)
Normalise(a) ==
    [portfolio_id |-> a.portfolio_id, ticker |-> Upper(a.ticker),
     trade_type |-> Upper(a.trade_type), given |-> a.trade_type,
     shares |-> R(a.shares),
     price |-> R(a.price), total_amount |-> TotalAmount(R(a.shares), R(a.price))]

Matching(rows, portfolio_id, ticker) ==
    {r \in rows : r.portfolio_id = portfolio_id /\ r.ticker = ticker}

(* The session_scope block is left: by an exception (raised) or normally.
   ov is what the connection's transaction has written by then. *)
Finish(p, n, pre, ov, raised, res, dirty, trade) ==
    LET exit == ScopeExit(Ledger, ov, raised)
    IN  /\ portfolios' = exit.portfolios
        /\ positions' = exit.positions
        /\ trades' = exit.trades
        /\ overlay' = [overlay EXCEPT ![Conn(p)] = EmptyOverlay]
        /\ pc' = [pc EXCEPT ![p] = "returned"]
        /\ call' = [call EXCEPT ![p] = NoCall]
        /\ loc' = [loc EXCEPT ![p] = IdleLoc]
        /\ last' = [NoLast EXCEPT
                        !.op = "execute_trade", !.call = n, !.pre = pre,
                        !.status = IF raised THEN "error" ELSE "ok",
                        !.kind = res.kind, !.need = res.need, !.have = res.have,
                        !.at = pc[p], !.dirty = dirty, !.trade = trade]
        /\ UNCHANGED <<snapshots, engine, now>>

Init ==
    /\ portfolios = EmptyFcn
    /\ positions = {}
    /\ trades = <<>>
    /\ snapshots = <<>>
    /\ engine \in Engines
    /\ overlay = [c \in Conns |-> EmptyOverlay]
    /\ pc = [p \in Procs |-> "idle"]
    /\ call = [p \in Procs |-> NoCall]
    /\ loc = [p \in Procs |-> IdleLoc]
    /\ last = NoLast
    /\ now = 0
    /\ ncalls = 0

(* create_portfolio: the Portfolio row and its initial snapshot *)
CreatePortfolio(id, starting_cash) ==
    /\ id \notin DOMAIN portfolios
    /\ \A p \in Procs : pc[p] = "idle"
    /\ LET portfolio == PortfolioRow(id, R(starting_cash))
       IN  /\ portfolios' = [x \in DOMAIN portfolios \cup {id} |->
                                IF x = id THEN portfolio ELSE portfolios[x]]
           /\ snapshots' = Append(snapshots, InitialSnapshot(portfolio, now))
    /\ UNCHANGED <<positions, trades, engine, overlay, pc, call, loc, last, now, ncalls>>

-----------------------------------------------------------------------------
(* execute_trade, lines 142-183: normalise, load the portfolio, validate,
   add the Trade to the session *)
TradeBegin(p, a) ==
    /\ pc[p] = "idle"
    /\ LET c == Conn(p)
           n == Normalise(a)
           v == View(c)
           trade == TradeRow(FreshId(TradeIdsInUse), n.portfolio_id, n.ticker,
                             n.trade_type, n.shares, n.price, n.total_amount)
       IN  IF n.portfolio_id \notin DOMAIN v.portfolios
           THEN Finish(p, n, Ledger, overlay[c], TRUE, Reject("NotFound", R(0), R(0)), FALSE, {})
           ELSE \E sel \in (IF n.trade_type = "SELL"
                            THEN First(Matching(v.positions, n.portfolio_id, n.ticker))
                            ELSE {{}}) :
                LET portfolio == v.portfolios[n.portfolio_id]
                    res == ValidateTrade(n.trade_type, n.shares, n.total_amount,
                                         portfolio.current_cash, sel)
                IN  IF ~res.ok
                    THEN Finish(p, n, Ledger, overlay[c], TRUE, res,
                                PendingAtValidation(trade) # {}, {})
                    ELSE /\ pc' = [pc EXCEPT ![p] = "validated"]
                         /\ call' = [call EXCEPT ![p] = n]
                         /\ loc' = [loc EXCEPT ![p] =
                                [cash |-> portfolio.current_cash,
                                 cashStored |-> portfolio.current_cash,
                                 pos |-> sel, posLoaded |-> sel, posOp |-> "none",
                                 trade |-> {trade}, pre |-> Ledger]]
                         /\ UNCHANGED <<portfolios, positions, trades, snapshots,
                                        engine, overlay, last, now>>

(* The autoflush before a query: the pending Trade, and the portfolio's cash
   if it changed *)
Autoflush(ov, portfolio_id, trade, cash, cashStored) ==
    LET ov1 == OvInsertTrade(ov, trade)
    IN  IF cash # cashStored THEN OvSetCash(ov1, portfolio_id, cash) ELSE ov1

(* _execute_buy, lines 210-235 *)
ExecuteBuy(p) ==
    /\ pc[p] = "validated"
    /\ UNCHANGED ncalls
    /\ call[p].trade_type = "BUY"
    /\ LET c == Conn(p)
           n == call[p]
           l == loc[p]
           cash == BuyCash(l.cash, n.total_amount)
           ov1 == Autoflush(overlay[c], n.portfolio_id, The(l.trade), cash, l.cashStored)
           v == Apply(Ledger, ov1)
       IN  /\ cash # l.cashStored => ~PortfolioLocked(c, n.portfolio_id)
           /\ \E sel \in First(Matching(v.positions, n.portfolio_id, n.ticker)) :
                IF ~IsNone(sel) /\ RIsZero(RAdd(The(sel).shares, n.shares))
                THEN Finish(p, n, l.pre, ov1, TRUE,
                            Reject("ZeroDivision", R(0), R(0)), TRUE, {})
                ELSE /\ overlay' = [overlay EXCEPT ![c] = ov1]
                     /\ loc' = [loc EXCEPT ![p] =
                            [l EXCEPT
                                !.cash = cash,
                                !.cashStored = cash,
                                !.posLoaded = sel,
                                !.pos = IF IsNone(sel)
                                        THEN {NewPosition(FreshId(PositionIdsInUse),
                                                  n.portfolio_id, n.ticker, n.shares,
                                                  n.price, n.total_amount)}
                                        ELSE {BuyExisting(The(sel), n.shares, n.total_amount)},
                                !.posOp = IF IsNone(sel) THEN "insert" ELSE "update"]]
                     /\ pc' = [pc EXCEPT ![p] = "applied"]
                     /\ UNCHANGED <<portfolios, positions, trades, snapshots,
                                    engine, call, last, now>>

(* _execute_sell, lines 248-274, and line 190.  The query of line 249 finds
   the row again; if it is the row validation loaded, the session hands back
   that same object with the attributes it already has. *)
ExecuteSell(p) ==
    /\ pc[p] = "validated"
    /\ UNCHANGED ncalls
    /\ call[p].trade_type = "SELL"
    /\ LET c == Conn(p)
           n == call[p]
           l == loc[p]
           ov1 == Autoflush(overlay[c], n.portfolio_id, The(l.trade), l.cash, l.cashStored)
           v == Apply(Ledger, ov1)
       IN  \E sel \in First(Matching(v.positions, n.portfolio_id, n.ticker)) :
             IF IsNone(sel)
             THEN Finish(p, n, l.pre, ov1, TRUE, Reject("NoPosition", R(0), R(0)), TRUE, {})
             ELSE LET position == IF The(sel).id \in Ids(l.pos) THEN The(l.pos) ELSE The(sel)
                  IN  IF RIsZero(position.shares)
                      THEN Finish(p, n, l.pre, ov1, TRUE,
                                  Reject("ZeroDivision", R(0), R(0)), TRUE, {})
                      ELSE /\ overlay' = [overlay EXCEPT ![c] = ov1]
                           /\ loc' = [loc EXCEPT ![p] =
                                [l EXCEPT
                                    !.cash = SellCash(l.cash, n.total_amount),
                                    !.posLoaded = {position},
                                    !.pos = IF SellsAll(position, n.shares)
                                            THEN {position}
                                            ELSE {SellPartial(position, n.shares)},
                                    !.posOp = IF SellsAll(position, n.shares)
                                              THEN "delete" ELSE "update",
                                    !.trade = {[The(l.trade) EXCEPT !.realized_pnl =
                                        RealizedPnl(position, n.shares, n.total_amount)]}]]
                           /\ pc' = [pc EXCEPT ![p] = "applied"]
                           /\ UNCHANGED <<portfolios, positions, trades, snapshots,
                                          engine, call, last, now>>

(* session.commit(), first half: the flush of what the session still holds.
   An UPDATE or DELETE by primary key that matches no row raises
   StaleDataError. *)
FlushCash(ov, portfolio_id, l) ==
    IF l.cash # l.cashStored THEN OvSetCash(ov, portfolio_id, l.cash) ELSE ov

FlushPosition(ov, stored, l) ==
    IF l.posOp = "insert" THEN OvPutPosition(ov, The(l.pos))
    ELSE IF l.posOp = "update"
         THEN OvPutPosition(ov, MergeUpdate(The(stored), The(l.posLoaded), The(l.pos)))
    ELSE IF l.posOp = "delete" THEN OvDeletePosition(ov, The(l.pos).id)
    ELSE ov

FlushTrade(ov, l) ==
    IF The(l.trade).realized_pnl # NoneR
    THEN OvSetTradePnl(ov, The(l.trade).id, The(l.trade).realized_pnl)
    ELSE ov

TradeFlush(p) ==
    /\ pc[p] = "applied"
    /\ UNCHANGED ncalls
    /\ LET c == Conn(p)
           n == call[p]
           l == loc[p]
           v == View(c)
           stored == {r \in v.positions : r.id \in Ids(l.pos)}
           stale == \/ l.posOp \in {"update", "delete"} /\ stored = {}
                    \/ /\ The(l.trade).realized_pnl # NoneR
                       /\ The(l.trade).id \notin Ids(Range(overlay[c].trIns))
           ov1 == FlushTrade(FlushPosition(FlushCash(overlay[c], n.portfolio_id, l),
                                           stored, l), l)
       IN  /\ l.cash # l.cashStored => ~PortfolioLocked(c, n.portfolio_id)
           /\ l.posOp \in {"update", "delete"} => ~PositionLocked(c, The(l.pos).id)
           /\ IF stale
              THEN Finish(p, n, l.pre, overlay[c], TRUE,
                          Reject("StaleData", R(0), R(0)), TRUE, {})
              ELSE /\ overlay' = [overlay EXCEPT ![c] = ov1]
                   /\ loc' = [loc EXCEPT ![p] = [l EXCEPT !.cashStored = l.cash]]
                   /\ pc' = [pc EXCEPT ![p] = "flushed"]
                   /\ UNCHANGED <<portfolios, positions, trades, snapshots,
                                  engine, call, last, now>>

(* session.commit(), second half: COMMIT; execute_trade returns the Trade *)
TradeCommit(p) ==
    /\ pc[p] = "flushed"
    /\ UNCHANGED ncalls
    /\ Finish(p, call[p], loc[p].pre, overlay[Conn(p)], FALSE, Accept, TRUE, loc[p].trade)

(* The store fails under a statement of the open transaction *)
StoreFailure(p) ==
    /\ pc[p] \in {"validated", "applied", "flushed"}
    /\ UNCHANGED ncalls
    /\ Finish(p, call[p], loc[p].pre, overlay[Conn(p)], TRUE,
              Reject("StoreFailure", R(0), R(0)), TRUE, {})

-----------------------------------------------------------------------------
(* The arguments of execute_trade.  A call on an unknown portfolio ends at the
   portfolio query, before the ticker, shares or price are used: one value of
   each is enough there. *)
TradeInputs ==
    {a \in [portfolio_id : PortfolioIdInputs, ticker : TickerInputs,
            trade_type : TradeTypeInputs, shares : ShareInputs, price : PriceInputs] :
        a.portfolio_id # "P1" => (a.ticker = "AAPL" /\ a.shares = 1 /\ a.price = 1)}

(* Calls within the contract: a known trade type, shares > 0, price > 0 *)
ValidTradeInputs ==
    {a \in TradeInputs : /\ Upper(a.trade_type) \in {"BUY", "SELL"}
                         /\ a.shares > 0
                         /\ a.price > 0}

(* The call is over: its caller has the Trade or the exception *)
Return(p) ==
    /\ pc[p] = "returned"
    /\ UNCHANGED ncalls
    /\ pc' = [pc EXCEPT ![p] = "idle"]
    /\ last' = NoLast
    /\ UNCHANGED <<portfolios, positions, trades, snapshots, engine, overlay, call, loc, now>>

ConcTradeInputs ==
    {a \in ValidTradeInputs : /\ a.portfolio_id = "P1"
                              /\ a.ticker = "AAPL"
                              /\ a.trade_type \in {"BUY", "SELL"}}

(* The call of the one caller *)
SerialTradeBegin(a) ==
    /\ Len(trades) < MaxTrades
    /\ TradeBegin(1, a)
    /\ UNCHANGED ncalls

(* A call of a concurrent caller; the count of calls bounds the run *)
ConcTradeBegin(p, a) ==
    /\ ncalls < MaxCalls
    /\ Len(trades) < MaxTrades
    /\ TradeBegin(p, a)
    /\ ncalls' = ncalls + 1

(* One caller, the default sqlite store: every call runs to its end before
   the next begins *)
InitSerial == Init /\ engine = "sqlite"

Next ==
    \/ \E starting_cash \in StartingCashInputs : CreatePortfolio("P1", starting_cash)
    \/ \E a \in TradeInputs : SerialTradeBegin(a)
    \/ Return(1)
    \/ ExecuteBuy(1)
    \/ ExecuteSell(1)
    \/ TradeFlush(1)
    \/ TradeCommit(1)
    \/ StoreFailure(1)

Spec == InitSerial /\ [][Next]_vars

(* Two callers whose calls interleave statement by statement *)
NextConc ==
    \/ \E starting_cash \in StartingCashInputs : CreatePortfolio("P1", starting_cash)
    \/ \E p \in Procs, a \in ConcTradeInputs : ConcTradeBegin(p, a)
    \/ \E p \in Procs : Return(p)
    \/ \E p \in Procs : ExecuteBuy(p)
    \/ \E p \in Procs : ExecuteSell(p)
    \/ \E p \in Procs : TradeFlush(p)
    \/ \E p \in Procs : TradeCommit(p)
    \/ \E p \in Procs : StoreFailure(p)

SpecConc == Init /\ [][NextConc]_vars

(* The worked example of the ledger: one portfolio opened with 10000 and the
   four AAPL trades of the example, in any order, one caller *)
MaxTraceTrades == 3

TraceTrade(trade_type, shares, price) ==
    [portfolio_id |-> "P1", ticker |-> "AAPL", trade_type |-> trade_type,
     shares |-> shares, price |-> price]

TraceTradeInputs ==
    {TraceTrade("BUY", 50, 150), TraceTrade("BUY", 25, 160),
     TraceTrade("SELL", 25, 160), TraceTrade("SELL", 25, 155)}

TraceTradeBegin(a) ==
    /\ Len(trades) < MaxTraceTrades
    /\ TradeBegin(1, a)
    /\ UNCHANGED ncalls

NextTrace ==
    \/ CreatePortfolio("P1", 10000)
    \/ \E a \in TraceTradeInputs : TraceTradeBegin(a)
    \/ Return(1)
    \/ ExecuteBuy(1)
    \/ ExecuteSell(1)
    \/ TradeFlush(1)
    \/ TradeCommit(1)
    \/ StoreFailure(1)

SpecTrace == InitSerial /\ [][NextTrace]_vars

-----------------------------------------------------------------------------
(* create_daily_snapshot and update_stop_loss *)

(* What get_current_price can return: no price, or a price *)
QuoteInputs == {NoneR, R(3)}

StopLossInputs == {NoneR, R(3)}

CurrentPrice_FromCostBasis(position, quote) ==
    IF quote = NoneR THEN position.cost_basis ELSE quote

(* lines 323-326: the oracle's price, or the position's average_cost *)
CurrentPrice(position, quote) ==
    IF quote = NoneR THEN position.average_cost ELSE quote

(* lines 328-343; the row's id stands for its uuid, one per position *)
PositionSnapshotRow(position, quote) ==
    LET current_price == CurrentPrice(position, quote)
        market_value == RMul(position.shares, current_price)
        unrealized_pnl == RSub(market_value, position.cost_basis)
    IN  [id |-> position.id, ticker |-> position.ticker, shares |-> position.shares,
         current_price |-> current_price, market_value |-> market_value,
         cost_basis |-> position.cost_basis, unrealized_pnl |-> unrealized_pnl,
         unrealized_pnl_pct |->
            IF RLess(R(0), position.cost_basis)
            THEN RMul(RDiv(unrealized_pnl, position.cost_basis), R(100))
            ELSE R(0)]

(* lines 318, 332: total_positions_value += market_value over the loop *)
RECURSIVE SumMarketValue(_)
SumMarketValue(rows) ==
    IF rows = {} THEN R(0)
    ELSE LET r == CHOOSE x \in rows : TRUE
         IN  RAdd(r.market_value, SumMarketValue(rows \ {r}))

TotalEquity_CashOnly(current_cash, total_positions_value) == current_cash

(* line 346 *)
TotalEquity(current_cash, total_positions_value) ==
    RAdd(current_cash, total_positions_value)

(* lines 352-355: the portfolio's snapshot of the greatest snapshot_date;
   among equal dates the choice is the store's *)
PreviousSnapshot(portfolio_id) ==
    LET mine == {i \in DOMAIN snapshots : snapshots[i].portfolio_id = portfolio_id}
        latest == {i \in mine : \A j \in mine :
                      snapshots[j].snapshot_date <= snapshots[i].snapshot_date}
    IN  IF mine = {} THEN {{}} ELSE {{snapshots[i]} : i \in latest}

(* line 359 divides by the previous snapshot's total_equity *)
DailyReturnRaises(previous_snapshot) ==
    previous_snapshot # {} /\ RIsZero(The(previous_snapshot).total_equity)

(* lines 317-372 *)
DailySnapshot(portfolio, held, quotes, previous_snapshot, snapshot_date) ==
    LET position_snapshots == {PositionSnapshotRow(r, quotes[r.id]) : r \in held}
        total_positions_value == SumMarketValue(position_snapshots)
        total_equity == TotalEquity(portfolio.current_cash, total_positions_value)
        total_return == RSub(total_equity, portfolio.starting_cash)
    IN  [portfolio_id |-> portfolio.id, snapshot_date |-> snapshot_date,
         total_equity |-> total_equity,
         cash_balance |-> portfolio.current_cash,
         total_positions_value |-> total_positions_value,
         daily_return |->
            IF previous_snapshot = {} THEN R(0)
            ELSE RMul(RDiv(RSub(total_equity, The(previous_snapshot).total_equity),
                           The(previous_snapshot).total_equity), R(100)),
         total_return |-> total_return,
         total_return_pct |->
            IF RLess(R(0), portfolio.starting_cash)
            THEN RMul(RDiv(total_return, portfolio.starting_cash), R(100))
            ELSE R(0),
         position_snapshots |-> position_snapshots]

SnapshotLedgerWrites_SetsCash(ov, snapshot) ==
    OvSetCash(ov, snapshot.portfolio_id, snapshot.total_equity)

(* What the flush of create_daily_snapshot writes to the portfolios,
   positions and trades tables: nothing, the session has changed no
   attribute of a loaded row and added only snapshot rows *)
SnapshotLedgerWrites(ov, snapshot) == ov

(* What a create_daily_snapshot call holds between its statements *)
SnapshotLoc(portfolio, snapshot_date) ==
    [portfolio |-> portfolio, snapshot_date |-> snapshot_date, snapshot |-> {},
     held |-> {}, previous |-> {}, quotes |-> EmptyFcn, snaps |-> snapshots]
        @@ [IdleLoc EXCEPT !.pre = Ledger]

SnapshotInsert_Upsert(rows, snapshot) ==
    SelectSeq(rows, LAMBDA r : \A k \in DOMAIN snapshot :
                  ~(/\ r.portfolio_id = snapshot[k].portfolio_id
                    /\ r.snapshot_date = snapshot[k].snapshot_date)) \o snapshot

(* session.add(snapshot), line 374, and its INSERT: a new row, whatever rows
   the table holds *)
SnapshotInsert(rows, snapshot) == rows \o snapshot

(* The session_scope block of create_daily_snapshot is left *)
SnapshotFinish(p, portfolio_id, pre, snaps, raised, kind, snapshot, quotes) ==
    LET ov == IF snapshot = <<>> THEN overlay[Conn(p)]
              ELSE SnapshotLedgerWrites(overlay[Conn(p)], snapshot[1])
        exit == ScopeExit(Ledger, ov, raised)
    IN  /\ portfolios' = exit.portfolios
        /\ positions' = exit.positions
        /\ trades' = exit.trades
        /\ snapshots' = IF raised THEN snapshots ELSE SnapshotInsert(snapshots, snapshot)
        /\ overlay' = [overlay EXCEPT ![Conn(p)] = EmptyOverlay]
        /\ pc' = [pc EXCEPT ![p] = "returned"]
        /\ call' = [call EXCEPT ![p] = NoCall]
        /\ loc' = [loc EXCEPT ![p] = IdleLoc]
        /\ last' = [NoLast EXCEPT
                        !.op = "create_daily_snapshot",
                        !.call = [NoCall EXCEPT !.portfolio_id = portfolio_id],
                        !.pre = pre, !.snaps = snaps,
                        !.status = IF raised THEN "error" ELSE "ok",
                        !.kind = kind, !.at = pc[p], !.quotes = quotes]
        /\ UNCHANGED <<engine, now, ncalls>>

(* lines 304-310: load the portfolio *)
SnapshotBegin(p, portfolio_id, snapshot_date) ==
    /\ pc[p] = "idle"
    /\ LET v == View(Conn(p))
       IN  IF portfolio_id \notin DOMAIN v.portfolios
           THEN SnapshotFinish(p, portfolio_id, Ledger, snapshots, TRUE, "NotFound",
                               <<>>, EmptyFcn)
           ELSE /\ pc' = [pc EXCEPT ![p] = "snap_loaded"]
                /\ call' = [call EXCEPT ![p] = [NoCall EXCEPT !.portfolio_id = portfolio_id]]
                /\ loc' = [loc EXCEPT ![p] =
                              SnapshotLoc(v.portfolios[portfolio_id], snapshot_date)]
                /\ UNCHANGED <<portfolios, positions, trades, snapshots, engine,
                               overlay, last, now, ncalls>>

(* lines 312-344: load the positions and ask the price of each.
   get_current_price runs its cache lookup in a session_scope of its own
   (market_data_service.py lines 135-149), which commits: on the one shared
   sqlite connection that commits whatever any session has flushed so far. *)
SnapshotPrice(p) ==
    /\ pc[p] = "snap_loaded"
    /\ LET l == loc[p]
           c == Conn(p)
           v == View(c)
           held == {r \in v.positions : r.portfolio_id = l.portfolio.id}
           shared == engine = "sqlite" /\ held # {}
           exit == IF shared THEN ScopeExit(Ledger, overlay[c], FALSE) ELSE Ledger
       IN  \E quotes \in [Ids(held) -> QuoteInputs] :
             /\ portfolios' = exit.portfolios
             /\ positions' = exit.positions
             /\ trades' = exit.trades
             /\ overlay' = IF shared THEN [overlay EXCEPT ![c] = EmptyOverlay]
                           ELSE overlay
             /\ loc' = [loc EXCEPT ![p] = [l EXCEPT !.held = held, !.quotes = quotes]]
             /\ pc' = [pc EXCEPT ![p] = "snap_priced"]
             /\ UNCHANGED <<snapshots, engine, call, last, now, ncalls>>

(* lines 346-374: total, find the previous snapshot, add the new one to the
   session *)
SnapshotCompute(p) ==
    /\ pc[p] = "snap_priced"
    /\ LET l == loc[p]
       IN  \E previous_snapshot \in PreviousSnapshot(l.portfolio.id) :
             IF DailyReturnRaises(previous_snapshot)
             THEN SnapshotFinish(p, l.portfolio.id, l.pre, l.snaps, TRUE,
                                 "ZeroDivision", <<>>, l.quotes)
             ELSE /\ loc' = [loc EXCEPT ![p] =
                        [l EXCEPT !.previous = previous_snapshot,
                                  !.snapshot = {DailySnapshot(l.portfolio, l.held, l.quotes,
                                                    previous_snapshot, l.snapshot_date)}]]
                  /\ pc' = [pc EXCEPT ![p] = "snap_pending"]
                  /\ UNCHANGED <<portfolios, positions, trades, snapshots, engine,
                                 overlay, call, last, now, ncalls>>

(* database.py line 100: the INSERTs of the snapshot and COMMIT *)
SnapshotCommit(p) ==
    /\ pc[p] = "snap_pending"
    /\ LET l == loc[p]
       IN  SnapshotFinish(p, l.portfolio.id, l.pre, l.snaps, FALSE, "",
                          <<The(l.snapshot)>>, l.quotes)

(* The store fails under a statement of create_daily_snapshot *)
SnapshotStoreFailure(p) ==
    /\ pc[p] \in {"snap_loaded", "snap_priced", "snap_pending"}
    /\ LET l == loc[p]
       IN  SnapshotFinish(p, l.portfolio.id, l.pre, l.snaps, TRUE, "StoreFailure",
                          <<>>, l.quotes)

SetStopLoss_Ignored(position, stop_loss) == position

(* position.stop_loss = stop_loss *)
SetStopLoss(position, stop_loss) == [position EXCEPT !.stop_loss = stop_loss]

(* update_stop_loss, lines 276-295: False without a position or when the
   store fails (the exception is caught), else the UPDATE is committed *)
UpdateStopLoss(p, portfolio_id, ticker, stop_loss) ==
    /\ pc[p] = "idle"
    /\ LET c == Conn(p)
           v == View(c)
       IN  \E sel \in First(Matching(v.positions, portfolio_id, Upper(ticker))) :
           \E failed \in BOOLEAN :
             LET found == ~IsNone(sel)
                 ov == IF found /\ SetStopLoss(The(sel), stop_loss) # The(sel)
                       THEN OvPutPosition(overlay[c], SetStopLoss(The(sel), stop_loss))
                       ELSE overlay[c]
                 exit == ScopeExit(Ledger, ov, failed)
             IN  /\ found => ~PositionLocked(c, The(sel).id)
                 /\ portfolios' = exit.portfolios
                 /\ positions' = exit.positions
                 /\ trades' = exit.trades
                 /\ overlay' = [overlay EXCEPT ![c] = EmptyOverlay]
                 /\ pc' = [pc EXCEPT ![p] = "returned"]
                 /\ last' = [NoLast EXCEPT
                                !.op = "update_stop_loss",
                                !.call = [NoCall EXCEPT !.portfolio_id = portfolio_id,
                                                        !.ticker = Upper(ticker)],
                                !.pre = Ledger, !.snaps = snapshots, !.status = "ok",
                                !.need = stop_loss,
                                !.kind = IF failed THEN "StoreFailure" ELSE "",
                                !.ret = IF found /\ ~failed THEN "True" ELSE "False"]
                 /\ UNCHANGED <<snapshots, engine, call, loc, now, ncalls>>

(* A snapshot call of the ledger runs; the count of snapshots bounds the run *)
LedgerSnapshotBegin(portfolio_id, snapshot_date) ==
    /\ Len(snapshots) <= MaxSnapshots
    /\ SnapshotBegin(1, portfolio_id, snapshot_date)

(* The trades of the ledger runs: within the contract, on one portfolio *)
LedgerTradeInputs ==
    {a \in ValidTradeInputs : /\ a.portfolio_id = "P1"
                              /\ a.ticker \in {"AAPL", "MSFT"}
                              /\ a.trade_type \in {"BUY", "SELL"}}

(* One caller of the three ledger operations, one call at a time *)
NextLedger ==
    \/ \E starting_cash \in StartingCashInputs : CreatePortfolio("P1", starting_cash)
    \/ \E a \in LedgerTradeInputs : SerialTradeBegin(a)
    \/ ExecuteBuy(1)
    \/ ExecuteSell(1)
    \/ TradeFlush(1)
    \/ TradeCommit(1)
    \/ StoreFailure(1)
    \/ \E id \in PortfolioIdInputs, d \in SnapshotDateInputs :
          LedgerSnapshotBegin(id, d)
    \/ SnapshotPrice(1)
    \/ SnapshotCompute(1)
    \/ SnapshotCommit(1)
    \/ SnapshotStoreFailure(1)
    \/ \E t \in {"AAPL", "aapl", "MSFT"}, sl \in StopLossInputs :
          UpdateStopLoss(1, "P1", t, sl)
    \/ Return(1)

SpecLedger == InitSerial /\ [][NextLedger]_vars

-----------------------------------------------------------------------------
(* Dates.  The clock counts hours; create_portfolio stamps its snapshot with
   the clock, create_daily_snapshot with the date it is given or, by default,
   with 16:00 of the current day. *)
HoursPerDay == 24

MarketCloseHour == 16

(* datetime.now().replace(hour=16, minute=0, second=0, microsecond=0) *)
MarketClose(t) == (t \div HoursPerDay) * HoursPerDay + MarketCloseHour

(* The hours at which the caller acts: before and after the close of the
   first day, and in the morning of the second *)
ClockInputs == {10, 20, 30}

(* The snapshot_date argument: none, or the close of the first day *)
SnapshotDateArgs == {<<>>, <<16>>}

(* lines 300-301 *)
SnapshotDate(arg) == IF arg = <<>> THEN MarketClose(now) ELSE arg[1]

MaxDatedSnapshots == 3

MaxDatedTrades == 2

(* Time passes between two calls *)
Tick(t) ==
    /\ pc[1] = "idle"
    /\ t > now
    /\ now' = t
    /\ UNCHANGED <<portfolios, positions, trades, snapshots, engine, overlay, pc,
                   call, loc, last, ncalls>>

DatedSnapshotBegin(arg) ==
    /\ Len(snapshots) < MaxDatedSnapshots
    /\ SnapshotBegin(1, "P1", SnapshotDate(arg))

DatedTradeInputs ==
    {a \in LedgerTradeInputs : a.ticker = "AAPL" /\ a.shares = a.price}

DatedTradeBegin(a) ==
    /\ Len(trades) < MaxDatedTrades
    /\ TradeBegin(1, a)
    /\ UNCHANGED ncalls

(* lines 470-497: the summary dictionary *)
Summary(portfolio, latest_snapshot, position_count, trade_count) ==
    [portfolio_id |-> portfolio.id,
     starting_cash |-> portfolio.starting_cash,
     current_cash |-> portfolio.current_cash,
     position_count |-> position_count,
     trade_count |-> trade_count,
     total_equity |-> latest_snapshot.total_equity,
     total_positions_value |-> latest_snapshot.total_positions_value,
     total_return |-> latest_snapshot.total_return,
     total_return_pct |-> latest_snapshot.total_return_pct,
     daily_return |-> latest_snapshot.daily_return,
     last_updated |-> latest_snapshot.snapshot_date]

(* get_portfolio_summary, lines 444-503: the latest snapshot is the first of
   the portfolio's snapshots in descending snapshot_date.  Every portfolio has
   the snapshot create_portfolio wrote with it, so the branch for a portfolio
   without snapshots (lines 489-497) is never taken. *)
GetPortfolioSummary(p, portfolio_id) ==
    /\ pc[p] = "idle"
    /\ LET v == View(Conn(p))
       IN  \E latest_snapshot \in PreviousSnapshot(portfolio_id) :
           \E failed \in BOOLEAN :
             LET found == portfolio_id \in DOMAIN v.portfolios /\ latest_snapshot # {}
                 position_count ==
                     Cardinality({r \in v.positions : r.portfolio_id = portfolio_id})
                 trade_count ==
                     Len(SelectSeq(v.trades, LAMBDA t : t.portfolio_id = portfolio_id))
             IN  /\ last' = [NoLast EXCEPT
                        !.op = "get_portfolio_summary",
                        !.call = [NoCall EXCEPT !.portfolio_id = portfolio_id],
                        !.pre = Ledger, !.snaps = snapshots,
                        !.status = IF found /\ ~failed THEN "ok" ELSE "error",
                        !.kind = IF ~found THEN "NotFound"
                                 ELSE IF failed THEN "StoreFailure" ELSE "",
                        !.summary = IF found /\ ~failed
                                    THEN Summary(v.portfolios[portfolio_id],
                                                 The(latest_snapshot),
                                                 position_count, trade_count)
                                    ELSE EmptyFcn]
                 /\ (~found) => ~failed
    /\ pc' = [pc EXCEPT ![p] = "returned"]
    /\ UNCHANGED <<portfolios, positions, trades, snapshots, engine, overlay,
                   call, loc, now, ncalls>>

(* One caller of the ledger over two days *)
NextDated ==
    \/ CreatePortfolio("P1", 4)
    \/ \E t \in ClockInputs : Tick(t)
    \/ \E a \in DatedTradeInputs : DatedTradeBegin(a)
    \/ ExecuteBuy(1)
    \/ ExecuteSell(1)
    \/ TradeFlush(1)
    \/ TradeCommit(1)
    \/ StoreFailure(1)
    \/ \E arg \in SnapshotDateArgs : DatedSnapshotBegin(arg)
    \/ SnapshotPrice(1)
    \/ SnapshotCompute(1)
    \/ SnapshotCommit(1)
    \/ SnapshotStoreFailure(1)
    \/ \E sl \in StopLossInputs : UpdateStopLoss(1, "P1", "AAPL", sl)
    \/ \E id \in PortfolioIdInputs : GetPortfolioSummary(1, id)
    \/ Return(1)

SpecDated == InitSerial /\ [][NextDated]_vars

-----------------------------------------------------------------------------
(* A snapshot taken while trades run: session 1 calls create_daily_snapshot,
   session 2 execute_trade, and their statements interleave; the store is
   either engine *)
ConcSnapshotBegin(snapshot_date) ==
    /\ Len(snapshots) <= MaxSnapshots
    /\ SnapshotBegin(1, "P1", snapshot_date)

NextSnapshotConc ==
    \/ CreatePortfolio("P1", 4)
    \/ \E a \in DatedTradeInputs : ConcTradeBegin(2, a)
    \/ ExecuteBuy(2)
    \/ ExecuteSell(2)
    \/ TradeFlush(2)
    \/ TradeCommit(2)
    \/ StoreFailure(2)
    \/ \E d \in SnapshotDateInputs : ConcSnapshotBegin(d)
    \/ SnapshotPrice(1)
    \/ SnapshotCompute(1)
    \/ SnapshotCommit(1)
    \/ SnapshotStoreFailure(1)
    \/ \E p \in Procs : Return(p)

SpecSnapshotConc == Init /\ [][NextSnapshotConc]_vars

-----------------------------------------------------------------------------
(* Properties *)

TradesOf(id, trade_type) ==
    SelectSeq(trades, LAMBDA t : t.portfolio_id = id /\ t.trade_type = trade_type)

SumTotalAmount(ts) == RSum([i \in DOMAIN ts |-> ts[i].total_amount])

ValidationErrors == {"NotFound", "InvalidTradeType", "InsufficientCash", "InsufficientShares"}

(* The caller of session 1 holds the outcome of an execute_trade call *)
Returned == pc[1] = "returned" /\ last.op = "execute_trade"

(* The portfolio the call named existed when the call began *)
LastPortfolioKnown == last.call.portfolio_id \in DOMAIN last.pre.portfolios

LastCashBefore == last.pre.portfolios[last.call.portfolio_id].current_cash

LastHeldBefore ==
    Matching(last.pre.positions, last.call.portfolio_id, last.call.ticker)

(* C1: in every state, each portfolio's current_cash is its starting_cash plus
   the total_amount of its recorded SELL trades minus the total_amount of its
   recorded BUY trades. *)
C1_CashConservation ==
    \A id \in DOMAIN portfolios :
        portfolios[id].current_cash =
            RSub(RAdd(portfolios[id].starting_cash, SumTotalAmount(TradesOf(id, "SELL"))),
                 SumTotalAmount(TradesOf(id, "BUY")))

(* A BUY and a SELL are on record and the cash has moved *)
C1_Witness ==
    /\ "P1" \in DOMAIN portfolios
    /\ Len(TradesOf("P1", "BUY")) > 0
    /\ Len(TradesOf("P1", "SELL")) > 0
    /\ portfolios["P1"].current_cash # portfolios["P1"].starting_cash

(* C2: a BUY whose shares*price exceeds current_cash ends with the
   insufficient-funds error, which reports the amount needed and the cash
   available, and the ledger is as before the call; a BUY with
   shares*price <= current_cash passes the funds check (it is committed unless
   the store fails, or the call's shares or the held shares are not positive
   and the new share count is zero); and after a committed BUY current_cash
   is not negative. *)
C2_BuyFundsCheck ==
    (Returned /\ last.call.trade_type = "BUY" /\ LastPortfolioKnown) =>
        /\ RLess(LastCashBefore, last.call.total_amount) =>
              /\ last.status = "error"
              /\ last.kind = "InsufficientCash"
              /\ last.need = last.call.total_amount
              /\ last.have = LastCashBefore
              /\ Ledger = last.pre
        /\ RLeq(last.call.total_amount, LastCashBefore) =>
              \/ last.status = "ok"
              \/ last.kind = "StoreFailure"
              \/ /\ last.kind = "ZeroDivision"
                 /\ \/ RLeq(last.call.shares, R(0))
                    \/ \E r \in LastHeldBefore : RLeq(r.shares, R(0))
        /\ last.status = "ok" =>
              /\ RLeq(R(0), portfolios[last.call.portfolio_id].current_cash)
              /\ portfolios[last.call.portfolio_id].current_cash =
                    RSub(LastCashBefore, last.call.total_amount)

(* A BUY was refused for lack of funds by a portfolio that has traded *)
C2_Witness ==
    /\ Returned
    /\ last.kind = "InsufficientCash"
    /\ RLess(last.have, last.need)
    /\ Len(trades) > 0

(* C3: no Position row has shares <= 0. *)
C3_PositionsPositive ==
    \A r \in positions : RLess(R(0), r.shares)

(* C4: for every Position row, cost_basis = shares * average_cost. *)
C4_CostBasisRelation ==
    \A r \in positions : r.cost_basis = RMul(r.shares, r.average_cost)

(* A position built by two BUYs at different prices: a blended average *)
C4_Witness ==
    \E r \in positions :
        /\ r.average_cost[2] # 1
        /\ Len(TradesOf(r.portfolio_id, "BUY")) = 2

(* C5: a call rejected by validation (portfolio not found, invalid trade type,
   insufficient funds, insufficient shares) was rejected before the session
   held any mutation, and the ledger is as before the call. *)
C5_RejectionLeavesLedger ==
    (Returned /\ last.status = "error" /\ last.kind \in ValidationErrors) =>
        /\ ~last.dirty
        /\ Ledger = last.pre

(* A SELL was rejected by a portfolio that holds a position and has trades *)
C5_Witness ==
    /\ Returned
    /\ last.kind = "InsufficientShares"
    /\ positions # {}
    /\ trades # <<>>

(* C6: a call that fails after its first mutation (the store fails after the
   Trade insert, after the cash update or after the position update, or the
   trade math raises) leaves the committed ledger as it was before the call. *)
C6_FailureRollsBack ==
    (Returned /\ last.status = "error" /\ last.dirty) => Ledger = last.pre

(* The store failed after the position update of a SELL had been flushed *)
C6_Witness ==
    /\ Returned
    /\ last.kind = "StoreFailure"
    /\ last.at = "flushed"
    /\ last.call.trade_type = "SELL"
    /\ positions # {}

(* C7: with two interleaved calls on a store that locks the rows it writes,
   a call the remaining cash no longer affords does not succeed on the cash
   it read earlier, and no committed trade's cash delta is lost: the cash is
   never negative and always accounts for every recorded trade. *)
C7_NoStaleSuccess ==
    engine = "other" =>
        \A id \in DOMAIN portfolios :
            /\ RLeq(R(0), portfolios[id].current_cash)
            /\ portfolios[id].current_cash =
                 RSub(RAdd(portfolios[id].starting_cash,
                           SumTotalAmount(TradesOf(id, "SELL"))),
                      SumTotalAmount(TradesOf(id, "BUY")))

(* C8: at most one Position row per (portfolio, ticker), also when two BUYs
   of a ticker not yet held run concurrently. *)
C8_OnePositionPerTicker ==
    \A r1, r2 \in positions :
        (r1.portfolio_id = r2.portfolio_id /\ r1.ticker = r2.ticker) => r1 = r2

(* C9: a SELL is committed only if a Position for the ticker existed with
   shares >= the requested shares; otherwise it ends with the
   insufficient-shares error, which reports the requested shares and the
   held shares (0 without a position), and nothing of it is applied. *)
C9_SellSharesCheck ==
    (Returned /\ last.call.trade_type = "SELL" /\ LastPortfolioKnown) =>
        LET held == LastHeldBefore
            short == held = {} \/ RLess(The(held).shares, last.call.shares)
        IN  /\ last.status = "ok" => ~short
            /\ short =>
                  /\ last.status = "error"
                  /\ last.kind = "InsufficientShares"
                  /\ last.need = last.call.shares
                  /\ last.have = (IF held = {} THEN R(0) ELSE The(held).shares)
                  /\ Ledger = last.pre
            /\ last.kind = "InsufficientShares" => short

(* A SELL of more shares than the position holds was refused *)
C9_Witness ==
    /\ Returned
    /\ last.kind = "InsufficientShares"
    /\ RLess(R(0), last.have)
    /\ RLess(last.have, last.need)

(* C10: a BUY or SELL with shares <= 0 or price <= 0 ends with an
   invalid-argument error and the ledger is as before the call. *)
C10_NonPositiveRejected ==
    (/\ Returned
     /\ LastPortfolioKnown
     /\ last.call.trade_type \in {"BUY", "SELL"}
     /\ (RLeq(last.call.shares, R(0)) \/ RLeq(last.call.price, R(0)))) =>
        /\ last.status = "error"
        /\ last.kind = "InvalidArgument"
        /\ Ledger = last.pre

(* C11: trade_type is matched whatever its letter case: 'buy' and 'sell' are
   validated and recorded as 'BUY' and 'SELL' (the Trade carries the
   uppercase type); any other value ends with the invalid-trade-type error
   and the ledger is as before the call. *)
C11_TradeTypeCase ==
    (Returned /\ LastPortfolioKnown) =>
        LET given == last.call.given
            short == LastHeldBefore = {}
                        \/ RLess(The(LastHeldBefore).shares, last.call.shares)
        IN  /\ given \in {"BUY", "buy"} =>
                /\ last.call.trade_type = "BUY"
                /\ last.kind # "InvalidTradeType"
                /\ (last.kind = "InsufficientCash") =
                       RLess(LastCashBefore, last.call.total_amount)
            /\ given \in {"SELL", "sell"} =>
                /\ last.call.trade_type = "SELL"
                /\ last.kind # "InvalidTradeType"
                /\ (last.kind = "InsufficientShares") = short
            /\ last.status = "ok" =>
                /\ The(last.trade).trade_type \in {"BUY", "SELL"}
                /\ The(last.trade).trade_type = last.call.trade_type
                /\ trades = Append(last.pre.trades, The(last.trade))
            /\ given \notin {"BUY", "buy", "SELL", "sell"} =>
                /\ last.status = "error"
                /\ last.kind = "InvalidTradeType"
                /\ Ledger = last.pre

(* A 'sell' in lower case was committed as a SELL *)
C11_Witness ==
    /\ Returned
    /\ last.call.given = "sell"
    /\ last.status = "ok"
    /\ The(last.trade).trade_type = "SELL"
    /\ Len(trades) = 2

(* get_position, lines 100-111: the results the query can return *)
GetPosition(portfolio_id, ticker) ==
    First(Matching(positions, portfolio_id, Upper(ticker)))

LastCashAfter == portfolios[last.call.portfolio_id].current_cash

(* The committed call was a trade of the given type on a held position *)
LastCommitted(trade_type) ==
    /\ Returned
    /\ last.status = "ok"
    /\ last.call.trade_type = trade_type

(* The row the traded position has after the call, if it has one *)
LastHeldAfter == {r \in positions : r.id \in Ids(LastHeldBefore)}

(* C12: a committed SELL of exactly the held shares deletes the Position row
   (get_position then returns none, and no row of it is left, with zero
   shares or otherwise) and adds shares*price to current_cash. *)
C12_FullSellDeletes ==
    (LastCommitted("SELL") /\ The(LastHeldBefore).shares = last.call.shares) =>
        /\ GetPosition(last.call.portfolio_id, last.call.ticker) = {{}}
        /\ LastHeldAfter = {}
        /\ positions = last.pre.positions \ LastHeldBefore
        /\ LastCashAfter = RAdd(LastCashBefore, RMul(last.call.shares, last.call.price))

(* All held shares were sold at a price above zero *)
C12_Witness ==
    /\ LastCommitted("SELL")
    /\ The(LastHeldBefore).shares = last.call.shares
    /\ RLess(R(0), last.call.shares)
    /\ RLess(LastCashBefore, LastCashAfter)

(* C13: a committed SELL of ds shares, 0 < ds < shares0, leaves the position
   with shares0 - ds shares, cost_basis cost0*(shares0 - ds)/shares0 and the
   average_cost it had, and adds ds*price to current_cash. *)
C13_PartialSell ==
    (/\ LastCommitted("SELL")
     /\ RLess(R(0), last.call.shares)
     /\ RLess(last.call.shares, The(LastHeldBefore).shares)) =>
        LET before == The(LastHeldBefore)
            left == RSub(before.shares, last.call.shares)
        IN  /\ LastHeldAfter =
                 {[before EXCEPT
                     !.shares = left,
                     !.cost_basis = RDiv(RMul(before.cost_basis, left), before.shares)]}
            /\ The(LastHeldAfter).average_cost = before.average_cost
            /\ positions = (last.pre.positions \ LastHeldBefore) \cup LastHeldAfter
            /\ LastCashAfter = RAdd(LastCashBefore, RMul(last.call.shares, last.call.price))

(* One of two held shares was sold *)
C13_Witness ==
    /\ LastCommitted("SELL")
    /\ The(LastHeldBefore).shares = R(2)
    /\ last.call.shares = R(1)
    /\ positions # {}

(* C14: a committed BUY of ds shares at price p takes ds*p from current_cash;
   without a position of the ticker it creates one with shares ds,
   average_cost p and cost_basis ds*p; on a held position (shares0, cost0)
   it sets shares0 + ds, cost0 + ds*p and average_cost = cost_basis/shares. *)
C14_BuyEffect ==
    LastCommitted("BUY") =>
        LET ds == last.call.shares
            p == last.call.price
            after == Matching(positions, last.call.portfolio_id, last.call.ticker)
        IN  /\ LastCashAfter = RSub(LastCashBefore, RMul(ds, p))
            /\ Cardinality(after) = 1
            /\ positions \ after = last.pre.positions \ LastHeldBefore
            /\ LastHeldBefore = {} =>
                  /\ The(after).shares = ds
                  /\ The(after).average_cost = p
                  /\ The(after).cost_basis = RMul(ds, p)
            /\ LastHeldBefore # {} =>
                  LET before == The(LastHeldBefore)
                  IN  /\ The(after).id = before.id
                      /\ The(after).shares = RAdd(before.shares, ds)
                      /\ The(after).cost_basis = RAdd(before.cost_basis, RMul(ds, p))
                      /\ The(after).average_cost =
                            RDiv(The(after).cost_basis, The(after).shares)

(* A second BUY at another price moved the average cost of a held position *)
C14_Witness ==
    /\ LastCommitted("BUY")
    /\ LastHeldBefore # {}
    /\ \E r \in LastHeldAfter : r.average_cost # The(LastHeldBefore).average_cost

(* The recorded BUY trades of the sold ticker, before the call *)
LastBuysBefore ==
    SelectSeq(last.pre.trades,
              LAMBDA t : /\ t.portfolio_id = last.call.portfolio_id
                         /\ t.ticker = last.call.ticker
                         /\ t.trade_type = "BUY")

(* C15: a committed SELL records realized_pnl = ds*price - (ds/shares0)*cost0,
   from the position as it was before the SELL; when every BUY of the ticker
   was at one price p0 and all shares are sold at p1, that is
   (p1 - p0)*shares. *)
C15_RealizedPnl ==
    LastCommitted("SELL") =>
        LET before == The(LastHeldBefore)
            ds == last.call.shares
            recorded == trades[Len(trades)]
        IN  /\ recorded = The(last.trade)
            /\ recorded.realized_pnl =
                  RSub(RMul(ds, last.call.price),
                       RMul(RDiv(ds, before.shares), before.cost_basis))
            /\ \A p0 \in {R(x) : x \in PriceInputs} :
                  (/\ \A i \in DOMAIN LastBuysBefore : LastBuysBefore[i].price = p0
                   /\ before.shares = ds) =>
                      recorded.realized_pnl = RMul(RSub(last.call.price, p0), ds)

(* A part of a position was sold at a gain *)
C15_Witness ==
    /\ LastCommitted("SELL")
    /\ RLess(last.call.shares, The(LastHeldBefore).shares)
    /\ RLess(R(0), The(last.trade).realized_pnl)

(* C16: every recorded SELL trade carries the cost basis of the shares sold
   and realized_pnl, and every recorded BUY trade carries neither. *)
C16_SellCarriesCostBasis ==
    \A i \in DOMAIN trades :
        /\ trades[i].trade_type = "SELL" =>
              /\ trades[i].cost_basis # NoneR
              /\ trades[i].realized_pnl # NoneR
        /\ trades[i].trade_type = "BUY" =>
              /\ trades[i].cost_basis = NoneR
              /\ trades[i].realized_pnl = NoneR

(* The caller holds the outcome of a create_daily_snapshot call *)
SnapshotReturned == pc[1] = "returned" /\ last.op = "create_daily_snapshot"

(* The snapshot the call has written *)
LastSnapshot == snapshots[Len(snapshots)]

(* The positions the portfolio of the call held when the call was made *)
LastPortfolioPositions ==
    {r \in last.pre.positions : r.portfolio_id = last.call.portfolio_id}

(* C17: the trade log is append-only.  A step changes it only by appending
   one Trade, with status FILLED and total_amount = shares*price, and only
   as the commit of an execute_trade call; a call that ends with an error
   appends none; create_daily_snapshot and update_stop_loss leave it as it
   is. *)
C17_AppendOnly ==
    [][/\ \/ trades' = trades
          \/ /\ Len(trades') = Len(trades) + 1
             /\ SubSeq(trades', 1, Len(trades)) = trades
             /\ trades'[Len(trades')].status = "FILLED"
             /\ trades'[Len(trades')].total_amount =
                    RMul(trades'[Len(trades')].shares, trades'[Len(trades')].price)
             /\ last'.op = "execute_trade"
             /\ last'.status = "ok"
             /\ last'.trade = {trades'[Len(trades')]}
       /\ (pc[1] # "returned" /\ pc'[1] = "returned" /\ last'.op = "execute_trade") =>
             Len(trades') = Len(trades) + (IF last'.status = "ok" THEN 1 ELSE 0)
      ]_vars

(* Two trades are on record, a snapshot was taken and a stop loss set *)
C17_Witness ==
    /\ Len(trades) = 2
    /\ Len(snapshots) = 2
    /\ \E r \in positions : r.stop_loss # NoneR

(* C18: after create_daily_snapshot, successful or failed, the portfolios,
   positions and trades are as before the call; a successful call has added
   one snapshot, a failed one none. *)
C18_SnapshotFrame ==
    SnapshotReturned =>
        /\ Ledger = last.pre
        /\ last.status = "ok" =>
              Len(snapshots) = Len(last.snaps) + 1
                 /\ SubSeq(snapshots, 1, Len(last.snaps)) = last.snaps
        /\ last.status = "error" => snapshots = last.snaps

(* A snapshot of a portfolio with a position and trades was written *)
C18_Witness ==
    /\ SnapshotReturned
    /\ last.status = "ok"
    /\ positions # {}
    /\ Len(trades) = 2
    /\ LastSnapshot.total_equity # LastSnapshot.cash_balance

(* C19: a snapshot written by create_daily_snapshot has cash_balance =
   current_cash, one PositionSnapshot per held position with market_value =
   shares*current_price and unrealized_pnl = market_value - cost_basis,
   total_positions_value = the sum of the market values (0 without
   positions) and total_equity = cash_balance + total_positions_value. *)
C19_SnapshotTotals ==
    (SnapshotReturned /\ last.status = "ok") =>
        LET snap == LastSnapshot
            held == LastPortfolioPositions
            ps == snap.position_snapshots
        IN  /\ snap.cash_balance = last.pre.portfolios[last.call.portfolio_id].current_cash
            /\ Ids(ps) = Ids(held)
            /\ Cardinality(ps) = Cardinality(held)
            /\ \A r \in held : \E x \in ps :
                  /\ x.id = r.id
                  /\ x.ticker = r.ticker
                  /\ x.shares = r.shares
                  /\ x.market_value = RMul(r.shares, x.current_price)
                  /\ x.unrealized_pnl = RSub(x.market_value, r.cost_basis)
            /\ snap.total_positions_value = SumMarketValue(ps)
            /\ snap.total_equity = RAdd(snap.cash_balance, snap.total_positions_value)
            /\ held = {} =>
                  /\ snap.total_positions_value = R(0)
                  /\ snap.total_equity = snap.cash_balance

(* A snapshot of two positions, worth more than they cost *)
C19_Witness ==
    /\ SnapshotReturned
    /\ last.status = "ok"
    /\ Cardinality(LastSnapshot.position_snapshots) = 2
    /\ \E x \in LastSnapshot.position_snapshots : RLess(R(0), x.unrealized_pnl)

(* The snapshots of greatest snapshot_date the portfolio had before the call *)
LastPreviousSnapshots ==
    LET mine == {i \in DOMAIN last.snaps :
                    last.snaps[i].portfolio_id = last.call.portfolio_id}
    IN  {last.snaps[i] : i \in {i \in mine : \A j \in mine :
            last.snaps[j].snapshot_date <= last.snaps[i].snapshot_date}}

(* C20: a position for which get_current_price returned no price is valued
   at its average_cost and has its PositionSnapshot in the written snapshot,
   the other positions are priced by the oracle; and the call fails only for
   an unknown portfolio, a store failure or a previous snapshot of equity 0,
   none of which is a missing price. *)
C20_MissingPriceFallback ==
    SnapshotReturned =>
        /\ last.status = "ok" =>
              \A r \in LastPortfolioPositions :
                 \E x \in LastSnapshot.position_snapshots :
                    /\ x.id = r.id
                    /\ x.current_price =
                          (IF last.quotes[r.id] = NoneR THEN r.average_cost
                           ELSE last.quotes[r.id])
                    /\ x.market_value = RMul(r.shares, x.current_price)
        /\ last.status = "error" =>
              /\ last.kind \in {"NotFound", "StoreFailure", "ZeroDivision"}
              /\ last.kind = "NotFound" =>
                    last.call.portfolio_id \notin DOMAIN last.pre.portfolios
              /\ last.kind = "ZeroDivision" =>
                    \E prev \in LastPreviousSnapshots : RIsZero(prev.total_equity)

(* Of two positions one had no price: it was valued at its average cost, not
   at its cost basis, and the other at the oracle's price *)
C20_Witness ==
    /\ SnapshotReturned
    /\ last.status = "ok"
    /\ \E r1, r2 \in LastPortfolioPositions :
          /\ last.quotes[r1.id] = NoneR
          /\ r1.average_cost # r1.cost_basis
          /\ last.quotes[r2.id] # NoneR

(* C21: when the portfolio has no earlier snapshot, or the one the call
   compares with has total_equity 0, create_daily_snapshot succeeds with
   daily_return 0 (unless the store fails); it never ends with a division
   by zero. *)
C21_NoDivisionByZero ==
    (SnapshotReturned /\ last.call.portfolio_id \in DOMAIN last.pre.portfolios) =>
        /\ last.kind # "ZeroDivision"
        /\ (\/ LastPreviousSnapshots = {}
            \/ \A prev \in LastPreviousSnapshots : RIsZero(prev.total_equity)) =>
              \/ last.status = "ok" /\ LastSnapshot.daily_return = R(0)
              \/ last.kind = "StoreFailure"

SumRealizedPnl(ts) == RSum([i \in DOMAIN ts |-> ts[i].realized_pnl])

SumShares(ts) == RSum([i \in DOMAIN ts |-> ts[i].shares])

RECURSIVE SumCostBasis(_)
SumCostBasis(rows) ==
    IF rows = {} THEN R(0)
    ELSE LET r == CHOOSE r \in rows : TRUE
         IN  RAdd(r.cost_basis, SumCostBasis(rows \ {r}))

PositionsOf(id) == {r \in positions : r.portfolio_id = id}

(* C27: in every state, each portfolio's current_cash plus the cost_basis of
   its positions equals its starting_cash plus the realized_pnl of its
   recorded SELL trades. *)
C27_AccountingIdentity ==
    \A id \in DOMAIN portfolios :
        RAdd(portfolios[id].current_cash, SumCostBasis(PositionsOf(id))) =
            RAdd(portfolios[id].starting_cash, SumRealizedPnl(TradesOf(id, "SELL")))

(* A partial SELL at a profit is on record and the rest of the position is
   still held at a cost *)
C27_Witness ==
    \E id \in DOMAIN portfolios :
        /\ \E i \in DOMAIN trades :
             /\ trades[i].portfolio_id = id /\ trades[i].trade_type = "SELL"
             /\ RLess(R(0), trades[i].realized_pnl)
        /\ \E r \in PositionsOf(id) : RLess(R(0), r.cost_basis)

TradedTickers == {Upper(t) : t \in TickerInputs}

TickerTrades(id, ticker, trade_type) ==
    SelectSeq(TradesOf(id, trade_type), LAMBDA t : t.ticker = ticker)

RECURSIVE SumPositionShares(_)
SumPositionShares(rows) ==
    IF rows = {} THEN R(0)
    ELSE LET r == CHOOSE r \in rows : TRUE
         IN  RAdd(r.shares, SumPositionShares(rows \ {r}))

(* C28: in every state and for every portfolio and ticker, the shares of the
   Position row (0 when there is no row) are the shares of the recorded BUY
   trades of the ticker minus the shares of its recorded SELL trades. *)
C28_ShareConservation ==
    \A id \in DOMAIN portfolios : \A ticker \in TradedTickers :
        /\ Cardinality(Matching(positions, id, ticker)) <= 1
        /\ SumPositionShares(Matching(positions, id, ticker)) =
               RSub(SumShares(TickerTrades(id, ticker, "BUY")),
                    SumShares(TickerTrades(id, ticker, "SELL")))

(* A position is still held after a BUY and a partial SELL of its ticker *)
C28_Witness ==
    \E id \in DOMAIN portfolios : \E ticker \in TradedTickers :
        /\ TickerTrades(id, ticker, "BUY") # <<>>
        /\ TickerTrades(id, ticker, "SELL") # <<>>
        /\ \E r \in Matching(positions, id, ticker) : RLess(R(0), r.shares)

(* A position without its stop_loss *)
Holding(r) == [id |-> r.id, portfolio_id |-> r.portfolio_id, ticker |-> r.ticker,
               shares |-> r.shares, cost_basis |-> r.cost_basis,
               average_cost |-> r.average_cost]

Holdings(rows) == {Holding(r) : r \in rows}

(* C26: update_stop_loss on a held ticker returns True and changes only the
   stop_loss of that position (False and no change when the store fails); on a
   ticker that is not held it returns False and changes nothing; and no step
   other than the commit of the execute_trade the caller asked for changes
   what is held, whatever the quotes, prices and stop losses are. *)
C26_StopLossStoredOnly ==
    [][/\ (pc[1] = "idle" /\ last'.op = "update_stop_loss") =>
             LET held == Matching(positions, last'.call.portfolio_id, last'.call.ticker)
             IN  /\ portfolios' = portfolios
                 /\ trades' = trades
                 /\ snapshots' = snapshots
                 /\ IF held # {} /\ last'.kind # "StoreFailure"
                    THEN /\ last'.ret = "True"
                         /\ positions' = (positions \ held) \cup
                                {[r EXCEPT !.stop_loss = last'.need] : r \in held}
                    ELSE /\ last'.ret = "False"
                         /\ positions' = positions
       /\ Holdings(positions') # Holdings(positions) =>
             /\ last'.op = "execute_trade"
             /\ last'.status = "ok"
             /\ Len(trades') = Len(trades) + 1
             /\ LET trade == trades'[Len(trades')]
                IN  /\ trade.portfolio_id = call[1].portfolio_id
                    /\ trade.ticker = call[1].ticker
                    /\ trade.trade_type = call[1].trade_type
                    /\ trade.shares = call[1].shares
                    /\ trade.price = call[1].price
                    /\ \A r \in (Holdings(positions') \ Holdings(positions)) \cup
                                (Holdings(positions) \ Holdings(positions')) :
                          r.portfolio_id = trade.portfolio_id /\ r.ticker = trade.ticker
      ]_vars

(* A snapshot was taken at a quote equal to the stop loss stored on a position,
   and the position is still held *)
C26_Witness ==
    /\ SnapshotReturned
    /\ last.status = "ok"
    /\ \E r \in positions :
         /\ r.stop_loss = R(3)
         /\ r.id \in DOMAIN last.quotes
         /\ last.quotes[r.id] = R(3)

(* The ledger holds, for P1, this cash and exactly this AAPL position *)
TraceState(ledger, cash, shares, cost_basis, average_cost) ==
    /\ "P1" \in DOMAIN ledger.portfolios
    /\ ledger.portfolios["P1"].current_cash = R(cash)
    /\ \E r \in ledger.positions :
         /\ ledger.positions = {r}
         /\ r.portfolio_id = "P1" /\ r.ticker = "AAPL"
         /\ r.shares = R(shares)
         /\ r.cost_basis = R(cost_basis)
         /\ r.average_cost = R(average_cost)

(* The portfolio as created: the starting cash, nothing held, nothing traded *)
TraceFresh(ledger) ==
    /\ "P1" \in DOMAIN ledger.portfolios
    /\ ledger.portfolios["P1"].current_cash = R(10000)
    /\ ledger.positions = {}
    /\ ledger.trades = <<>>

(* The call that has returned was this trade of AAPL *)
TraceCall(trade_type, shares, price) ==
    /\ Returned
    /\ last.call.trade_type = trade_type
    /\ last.call.shares = R(shares)
    /\ last.call.price = R(price)

(* The call failed in the store and left the ledger as it was *)
TraceStoreFailed == last.kind = "StoreFailure" /\ Ledger = last.pre

(* C24: from the portfolio created with 10000, BUY 50 AAPL @150 gives cash
   2500 and the position (50 shares, average_cost 150, cost_basis 7500); from
   that state BUY 25 @160 is rejected for insufficient cash and changes
   nothing; from that state SELL 25 @160 records realized_pnl 250 and gives
   the position (25 shares, cost_basis 3750, average_cost 150) and cash 6500. *)
C24_TraceScenarios1To3 ==
    /\ (TraceCall("BUY", 50, 150) /\ TraceFresh(last.pre)) =>
          \/ last.status = "ok" /\ TraceState(Ledger, 2500, 50, 7500, 150)
          \/ TraceStoreFailed
    /\ (TraceCall("BUY", 25, 160) /\ TraceState(last.pre, 2500, 50, 7500, 150)) =>
          /\ last.status = "error"
          /\ last.kind = "InsufficientCash"
          /\ Ledger = last.pre
    /\ (TraceCall("SELL", 25, 160) /\ TraceState(last.pre, 2500, 50, 7500, 150)) =>
          \/ /\ last.status = "ok"
             /\ \A t \in last.trade : t.realized_pnl = R(250)
             /\ trades[Len(trades)].realized_pnl = R(250)
             /\ TraceState(Ledger, 6500, 25, 3750, 150)
          \/ TraceStoreFailed

(* The SELL of 25 @160 after the BUY of 50 @150 has been committed *)
C24_Witness ==
    /\ TraceCall("SELL", 25, 160)
    /\ TraceState(last.pre, 2500, 50, 7500, 150)
    /\ Len(last.pre.trades) = 1
    /\ last.status = "ok"

(* The outcome of SELL 25 AAPL @155 from (25 shares, cost_basis 3750,
   average_cost 150, cash 6500) with this realized_pnl: the position is
   deleted and the cash is 10375 *)
TraceScenario4(realized_pnl) ==
    (TraceCall("SELL", 25, 155) /\ TraceState(last.pre, 6500, 25, 3750, 150)) =>
        \/ /\ last.status = "ok"
           /\ trades[Len(trades)].realized_pnl = R(realized_pnl)
           /\ positions = {}
           /\ portfolios["P1"].current_cash = R(10375)
        \/ TraceStoreFailed

(* C25 as stated: the SELL of the remaining 25 AAPL @155 records
   realized_pnl 250, deletes the position and leaves cash 10375. *)
C25_Scenario4AsStated == TraceScenario4(250)

(* C25: the SELL of the remaining 25 AAPL @155 records realized_pnl
   (155 - 150) * 25 = 125, deletes the position and leaves cash 10375. *)
C25_TraceScenario4 == TraceScenario4(125)

(* The SELL of the remaining 25 @155 has been committed *)
C25_Witness ==
    /\ TraceCall("SELL", 25, 155)
    /\ TraceState(last.pre, 6500, 25, 3750, 150)
    /\ last.status = "ok"

(* The committed snapshots of a portfolio, oldest first as written *)
SnapshotsOf(id) == SelectSeq(snapshots, LAMBDA x : x.portfolio_id = id)

(* C22: the snapshot a create_daily_snapshot call compares with is dated
   earlier than the new snapshot, and it is the latest of the portfolio's
   snapshots dated earlier than the new one, if there is one. *)
C22_ReferencePrecedes ==
    pc[1] = "snap_pending" =>
        LET l == loc[1]
            mine == SnapshotsOf(l.portfolio.id)
            earlier == {i \in DOMAIN mine : mine[i].snapshot_date < l.snapshot_date}
        IN  /\ \A prev \in l.previous : prev.snapshot_date < l.snapshot_date
            /\ earlier # {} =>
                  \E prev \in l.previous : \A i \in earlier :
                      mine[i].snapshot_date <= prev.snapshot_date

(* C23: a successful create_daily_snapshot adds exactly one snapshot row, of
   the portfolio and date of the call, also when the portfolio has a snapshot
   of that date; a failed one adds none; and no step of any operation changes
   or removes a snapshot written before. *)
C23_SnapshotsAppendOnly ==
    [][/\ \/ snapshots' = snapshots
          \/ /\ Len(snapshots') = Len(snapshots) + 1
             /\ SubSeq(snapshots', 1, Len(snapshots)) = snapshots
             /\ \/ last'.op = "create_daily_snapshot" /\ last'.status = "ok"
                \/ DOMAIN portfolios' # DOMAIN portfolios
       /\ (pc[1] \in {"snap_loaded", "snap_priced", "snap_pending"}
              /\ pc'[1] = "returned") =>
             IF last'.status = "ok"
             THEN /\ Len(snapshots') = Len(snapshots) + 1
                  /\ snapshots'[Len(snapshots')].portfolio_id = loc[1].portfolio.id
                  /\ snapshots'[Len(snapshots')].snapshot_date = loc[1].snapshot_date
             ELSE snapshots' = snapshots
      ]_vars

(* A snapshot was written for a date of which the portfolio already had a
   snapshot, and both are on record *)
C23_Witness ==
    /\ SnapshotReturned
    /\ last.status = "ok"
    /\ \E i \in 1..(Len(snapshots) - 1) :
         /\ snapshots[i].portfolio_id = LastSnapshot.portfolio_id
         /\ snapshots[i].snapshot_date = LastSnapshot.snapshot_date

SummaryReturned == pc[1] = "returned" /\ last.op = "get_portfolio_summary"

(* C30: a summary of a portfolio on which create_daily_snapshot has succeeded
   reports the total_equity, total_return, total_return_pct and snapshot_date
   of the snapshot written last, and the cash, position count and trade count
   of the ledger. *)
C30_SummaryReportsNewest ==
    (SummaryReturned /\ last.status = "ok") =>
        LET id == last.call.portfolio_id
            mine == SnapshotsOf(id)
        IN  /\ last.summary.current_cash = portfolios[id].current_cash
            /\ last.summary.position_count = Cardinality(PositionsOf(id))
            /\ last.summary.trade_count =
                   Len(SelectSeq(trades, LAMBDA t : t.portfolio_id = id))
            /\ Len(mine) >= 2 =>
                  LET newest == mine[Len(mine)]
                  IN  /\ last.summary.total_equity = newest.total_equity
                      /\ last.summary.total_return = newest.total_return
                      /\ last.summary.total_return_pct = newest.total_return_pct
                      /\ last.summary.last_updated = newest.snapshot_date

(* What a snapshot says of a ledger: the cash and, per ticker, the shares *)
HeldShares(rows) == {<<r.ticker, r.shares>> : r \in rows}

(* The snapshot shows the cash and the holdings of this ledger *)
SnapshotOf(snapshot, ledger) ==
    /\ snapshot.cash_balance = ledger.portfolios[snapshot.portfolio_id].current_cash
    /\ HeldShares(snapshot.position_snapshots) =
           HeldShares({r \in ledger.positions : r.portfolio_id = snapshot.portfolio_id})

(* The ledger as the first k recorded trades leave it: the cash, and the
   shares of the one traded ticker *)
LedgerAfter(id, k) ==
    LET done == SubSeq(trades, 1, k)
        of(trade_type) == SelectSeq(done, LAMBDA t : t.portfolio_id = id
                                                  /\ t.trade_type = trade_type)
        shares == RSub(SumShares(of("BUY")), SumShares(of("SELL")))
    IN  [portfolios |-> [x \in {id} |-> [current_cash |->
            RSub(RAdd(portfolios[id].starting_cash, SumTotalAmount(of("SELL"))),
                 SumTotalAmount(of("BUY")))]],
         positions |-> IF RIsZero(shares) THEN {}
                       ELSE {[portfolio_id |-> id, ticker |-> "AAPL", shares |-> shares]}]

(* C29: the snapshot a create_daily_snapshot call has computed while trades
   ran shows one committed state of the ledger: its cash and its holdings are
   those of the ledger when the call began, or of the ledger now, or of the
   ledger after some number of the recorded trades. *)
C29_SnapshotOfOneState ==
    pc[1] = "snap_pending" =>
        LET snapshot == The(loc[1].snapshot)
        IN  \/ SnapshotOf(snapshot, loc[1].pre)
            \/ SnapshotOf(snapshot, Ledger)
            \/ \E k \in 0..Len(trades) :
                  SnapshotOf(snapshot, LedgerAfter(snapshot.portfolio_id, k))

=============================================================================
